---- MODULE Spec2Model ----
(***************************************************************************)
(* Model of scripts/analyze_typing.py: one run of the analysis script,     *)
(*   main -> run_pyright -> analyze_errors -> _suggest_starting_point      *)
(* and, further down, of scripts/init_typing.py: runs of the set-up script *)
(* on one project.                                                         *)
(* A dict is a function whose DOMAIN is the set of keys present, so that   *)
(* dict.get(key, default) is modelled by what it does.  A Counter is a     *)
(* sequence of [key, count] records in insertion order.  A path string is  *)
(* a record [abs, parts].  Standard output is a sequence of line records.  *)
(***************************************************************************)
EXTENDS Integers, Sequences, FiniteSets, TLC

VARIABLES pc, calls, proc, data, rules, files, out, err, exitCode

\* scripts/init_typing.py: the file system the script works on (regular
\* files in disk, directories in dirs), the position of the current run in
\* main, its flags and its exit status; and, recorded for
\* the properties, the number of finished runs, the files as they were
\* before the first run, at the start of the latest run and after the
\* first run, and the number of runs that reached the hook file
VARIABLES step, args, disk, dirs, status,
          runsDone, initial, before, first, hookRuns

avars == <<pc, calls, proc, data, rules, files, out, err, exitCode>>

svars == <<step, args, disk, dirs, status,
           runsDone, initial, before, first, hookRuns>>

vars == <<avars, svars>>

(* ----------------------------- bounds --------------------------------- *)
MaxDiags == 3        \* longest diagnostic list enumerated exhaustively
MaxErrorCount == 2   \* largest summary errorCount paired with those lists
MaxRuns == 2         \* runs of equal diagnostics in a run-length report
MaxDistinct == 11    \* distinct rules / files in a many-keys report

(* ------------------------ program constants --------------------------- *)
TopN == 10           \* most_common(10), len(...) > 10, len(...) - 10
ModerateLow == 5     \* 5 <= c
ModerateHigh == 20   \* c <= 20
StubThreshold == 20  \* stub_count > 20

QuickWinRules ==
    << "reportMissingParameterType", "reportMissingTypeStubs",
       "reportUnusedImport", "reportUnusedVariable", "reportReturnType" >>

(* ------------------------------ dicts --------------------------------- *)
\* dict.get(k, default)
Get(d, k, default) == IF k \in DOMAIN d THEN d[k] ELSE default

(* ----------------------------- Counter -------------------------------- *)
KeyIndex(table, key) ==
    IF \E i \in 1..Len(table) : table[i].key = key
        THEN CHOOSE i \in 1..Len(table) : table[i].key = key
        ELSE 0

\* table.get(key, 0)
CountOf(table, key) ==
    IF KeyIndex(table, key) = 0 THEN 0 ELSE table[KeyIndex(table, key)].count

\* table[key] += 1 : a new key is appended, an old key keeps its position
Increment(table, key) ==
    IF KeyIndex(table, key) = 0
        THEN Append(table, [key |-> key, count |-> 1])
        ELSE [table EXCEPT ![KeyIndex(table, key)].count = @ + 1]

RECURSIVE SumTable(_)
SumTable(table) ==
    IF table = << >> THEN 0 ELSE Head(table).count + SumTable(Tail(table))

\* an unstable sort: e goes before the entries of equal count
RECURSIVE InsertDescBeforeEqual(_, _)
InsertDescBeforeEqual(sorted, e) ==
    IF sorted = << >> THEN << e >>
    ELSE IF Head(sorted).count > e.count
        THEN << Head(sorted) >> \o InsertDescBeforeEqual(Tail(sorted), e)
        ELSE << e >> \o sorted

\* position of e in a list sorted by descending count: after every entry
\* whose count is >= e.count (sorted(..., reverse=True) is stable)
RECURSIVE InsertDesc(_, _)
InsertDesc(sorted, e) ==
    IF sorted = << >> THEN << e >>
    ELSE IF Head(sorted).count >= e.count
        THEN << Head(sorted) >> \o InsertDesc(Tail(sorted), e)
        ELSE << e >> \o sorted

RECURSIVE SortDesc(_, _)
SortDesc(table, acc) ==
    IF table = << >> THEN acc
    ELSE SortDesc(Tail(table), InsertDesc(acc, Head(table)))

\* table.most_common()
MostCommonAll(table) == SortDesc(table, << >>)

\* table.most_common(n)
MostCommon(table, n) ==
    LET s == MostCommonAll(table)
    IN  SubSeq(s, 1, IF Len(s) < n THEN Len(s) ELSE n)

(* ------------------------------ paths --------------------------------- *)
\* Path.cwd()
Cwd == [abs |-> TRUE, parts |-> << "proj" >>]

\* Path(s): pathlib drops "." components when it parses a string
RECURSIVE DropDots(_)
DropDots(parts) ==
    IF parts = << >> THEN << >>
    ELSE IF Head(parts) = "." THEN DropDots(Tail(parts))
    ELSE << Head(parts) >> \o DropDots(Tail(parts))

ParsePath(s) == [abs |-> s.abs, parts |-> DropDots(s.parts)]

IsPrefix(a, b) == Len(a) <= Len(b) /\ SubSeq(b, 1, Len(a)) = a

\* Path.relative_to raises ValueError unless other is a lexical prefix
RelativeToRaises(p, other) ==
    ~(p.abs = other.abs /\ IsPrefix(other.parts, p.parts))

RelativeTo(p, other) ==
    [abs |-> FALSE, parts |-> SubSeq(p.parts, Len(other.parts) + 1, Len(p.parts))]

\* try: file_path = str(Path(file_path).relative_to(Path.cwd()))
\* except ValueError: pass
DisplayPath(file_path) ==
    IF RelativeToRaises(ParsePath(file_path), Cwd)
        THEN file_path
        ELSE RelativeTo(ParsePath(file_path), Cwd)

\* diag.get("file", "unknown")
UnknownFile == [abs |-> FALSE, parts |-> << "unknown" >>]

\* a JSON value that is not a string (null, a number, an array) is a record
\* [json |-> ...]; a string is a path record
IsString(v) == "parts" \in DOMAIN v

\* the exception raised inside the try block around the conversion, "none"
\* when there is none: Path(file_path) raises TypeError unless file_path is
\* a str, relative_to raises ValueError
ConversionRaised(file_path) ==
    IF ~IsString(file_path) THEN "TypeError"
    ELSE IF RelativeToRaises(ParsePath(file_path), Cwd) THEN "ValueError"
    ELSE "none"

\* except ValueError: pass
ConversionCaught(exception) == exception = "ValueError"

\* the exception leaves the try statement, the loop and analyze_errors
ConversionEscapes(file_path) ==
    /\ ConversionRaised(file_path) # "none"
    /\ ~ConversionCaught(ConversionRaised(file_path))

(* --------------------------- aggregation ------------------------------ *)
IsError(diag) == "severity" \in DOMAIN diag /\ diag.severity = "error"

\* the severity test is missing: every diagnostic is counted
CountDiagAnySeverity(tables, diag) ==
    [rules |-> Increment(tables.rules, Get(diag, "rule", "unknown")),
     files |-> Increment(tables.files,
                         DisplayPath(Get(diag, "file", UnknownFile)))]

\* an error diagnostic without a rule is not counted
CountDiagRuleRequired(tables, diag) ==
    IF IsError(diag) /\ "rule" \in DOMAIN diag
        THEN [rules |-> Increment(tables.rules, diag.rule),
              files |-> Increment(tables.files,
                                  DisplayPath(Get(diag, "file", UnknownFile)))]
        ELSE tables

\* the body of the loop over diagnostics, on the pair of tables
CountDiag(tables, diag) ==
    IF IsError(diag)
        THEN [rules |-> Increment(tables.rules, Get(diag, "rule", "unknown")),
              files |-> Increment(tables.files,
                                  DisplayPath(Get(diag, "file", UnknownFile)))]
        ELSE tables

\* for diag in diagnostics: the loop body applied to diagnostics lo..hi in
\* list order, starting from tables.  The range is halved and the tables
\* after the first half are bound before the second half is entered, which
\* keeps the evaluation shallow; the order of application is the loop's.
RECURSIVE AggregateRange(_, _, _, _)
AggregateRange(diagnostics, lo, hi, tables) ==
    IF lo > hi THEN tables
    ELSE IF lo = hi THEN CountDiag(tables, diagnostics[lo])
    ELSE LET mid == (lo + hi) \div 2
         IN  CHOOSE result \in
                 { AggregateRange(diagnostics, mid + 1, hi, left) :
                     left \in { AggregateRange(diagnostics, lo, mid, tables) } } :
                 TRUE

Aggregate(diagnostics, tables) ==
    AggregateRange(diagnostics, 1, Len(diagnostics), tables)

EmptyTables == [rules |-> << >>, files |-> << >>]

(* ---------------------------- rendering ------------------------------- *)
\* count / error_count * 100 under the format 4.1f, in tenths of a percent;
\* the exact quotient rounded half to even (binary rounding error left out)
PctTenths(count, error_count) ==
    LET n == count * 1000
        q == n \div error_count
        r == n % error_count
    IN  IF 2 * r < error_count THEN q
        ELSE IF 2 * r > error_count THEN q + 1
        ELSE IF q % 2 = 0 THEN q ELSE q + 1

\* _get_rule_hint (the arrow of two hint texts is written ":" here)
GetRuleHint(rule) ==
    CASE rule = "reportUnknownMemberType" -> "Usually third-party libs: install stubs"
      [] rule = "reportMissingParameterType" -> "Add parameter annotations"
      [] rule = "reportMissingTypeStubs" -> "pip install types-{package}"
      [] rule = "reportUnknownArgumentType" -> "Check function call types"
      [] rule = "reportGeneralTypeIssues" -> "Type mismatch: fix logic or annotations"
      [] rule = "reportOptionalMemberAccess" -> "Add None check before access"
      [] rule = "reportUnknownVariableType" -> "Add variable annotation"
      [] rule = "reportPrivateUsage" -> "Rename or make public"
      [] rule = "reportAttributeAccessIssue" -> "Check attribute exists on type"
      [] rule = "reportReturnType" -> "Add return type annotation"
      [] OTHER -> ""

Line(kind) == [kind |-> kind]

HeaderLines(error_count, warning_count) ==
    << Line("banner"), Line("title"), Line("banner"),
       [kind |-> "total", errors |-> error_count, warnings |-> warning_count] >>

RECURSIVE RuleLines(_, _)
RuleLines(entries, error_count) ==
    IF entries = << >> THEN << >>
    ELSE LET e == Head(entries)
             hint == GetRuleHint(e.key)
         IN  << [kind |-> "rule", rule |-> e.key, count |-> e.count,
                 pct |-> PctTenths(e.count, error_count)] >>
             \o (IF hint # "" THEN << [kind |-> "hint", text |-> hint] >> ELSE << >>)
             \o RuleLines(Tail(entries), error_count)

RECURSIVE FileLines(_)
FileLines(entries) ==
    IF entries = << >> THEN << >>
    ELSE << [kind |-> "file", file |-> Head(entries).key,
             count |-> Head(entries).count] >>
         \o FileLines(Tail(entries))

\* the notice is printed from 10 keys on
ByErrorTypeNoticeAtTen(rule_table, error_count) ==
    << Line("byErrorType"), Line("dashes") >>
    \o RuleLines(MostCommon(rule_table, TopN), error_count)
    \o (IF Len(rule_table) >= TopN
            THEN << [kind |-> "moreTypes", n |-> Len(rule_table) - TopN] >>
            ELSE << >>)
    \o << Line("blank") >>

ByErrorType(rule_table, error_count) ==
    << Line("byErrorType"), Line("dashes") >>
    \o RuleLines(MostCommon(rule_table, TopN), error_count)
    \o (IF Len(rule_table) > TopN
            THEN << [kind |-> "moreTypes", n |-> Len(rule_table) - TopN] >>
            ELSE << >>)
    \o << Line("blank") >>

ByFile(file_table) ==
    << Line("byFile"), Line("dashes") >>
    \o FileLines(MostCommon(file_table, TopN))
    \o (IF Len(file_table) > TopN
            THEN << [kind |-> "moreFiles", n |-> Len(file_table) - TopN] >>
            ELSE << >>)
    \o << Line("blank") >>

(* ---------------------- _suggest_starting_point ------------------------ *)
RECURSIVE SumRules(_, _)
\* sum(rules.get(r, 0) for r in rule_list)
SumRules(rule_table, rule_list) ==
    IF rule_list = << >> THEN 0
    ELSE CountOf(rule_table, Head(rule_list)) + SumRules(rule_table, Tail(rule_list))

\* every rule counts as a quick win
QuickWinsAllRules(rule_table) == SumTable(rule_table)

QuickWins(rule_table) == SumRules(rule_table, QuickWinRules)

StubCount(rule_table) ==
    CountOf(rule_table, "reportMissingTypeStubs")
    + CountOf(rule_table, "reportUnknownMemberType")

\* the lower limit is exclusive and one too high
IsModerateAboveSix(e) == 6 < e.count /\ e.count <= ModerateHigh

IsModerate(e) == ModerateLow <= e.count /\ e.count <= ModerateHigh

\* [(f, c) for f, c in files.items() if 5 <= c <= 20]
ModerateFiles(file_table) == SelectSeq(file_table, IsModerate)

\* the last entry with the least count
MinByCountLast(seq) ==
    seq[CHOOSE i \in 1..Len(seq) :
            /\ \A j \in 1..Len(seq) : seq[i].count <= seq[j].count
            /\ \A j \in (i + 1)..Len(seq) : seq[j].count > seq[i].count]

\* max in place of min
MaxByCount(seq) ==
    seq[CHOOSE i \in 1..Len(seq) :
            /\ \A j \in 1..Len(seq) : seq[i].count >= seq[j].count
            /\ \A j \in 1..(i - 1) : seq[j].count < seq[i].count]

\* min(seq, key=count): the first entry with the least count
MinByCount(seq) ==
    seq[CHOOSE i \in 1..Len(seq) :
            /\ \A j \in 1..Len(seq) : seq[i].count <= seq[j].count
            /\ \A j \in 1..(i - 1) : seq[j].count > seq[i].count]

\* files.most_common()[-1]
Smallest(file_table) == MostCommonAll(file_table)[Len(file_table)]

StartingFileLines(file_table) ==
    IF file_table = << >> THEN << >>
    ELSE IF ModerateFiles(file_table) # << >>
        THEN LET suggested == MinByCount(ModerateFiles(file_table))
             IN  << [kind |-> "goodStart", file |-> suggested.key],
                    [kind |-> "goodStartCount", count |-> suggested.count] >>
        ELSE LET smallest == Smallest(file_table)
             IN  << [kind |-> "startSmall", file |-> smallest.key,
                     count |-> smallest.count] >>

QuickWinLines(rule_table) ==
    IF QuickWins(rule_table) > 0
        THEN << [kind |-> "quickWins", n |-> QuickWins(rule_table)],
                Line("quickWinsStartWith") >>
        ELSE << >>

\* >= in place of >
StubLinesAtThreshold(rule_table) ==
    IF StubCount(rule_table) >= StubThreshold
        THEN << [kind |-> "stubs", n |-> StubCount(rule_table)],
                Line("stubsCheck") >>
        ELSE << >>

StubLines(rule_table) ==
    IF StubCount(rule_table) > StubThreshold
        THEN << [kind |-> "stubs", n |-> StubCount(rule_table)],
                Line("stubsCheck") >>
        ELSE << >>

SuggestStartingPoint(rule_table, file_table) ==
    << Line("strategy"), Line("dashes") >>
    \o QuickWinLines(rule_table)
    \o StubLines(rule_table)
    \o StartingFileLines(file_table)
    \o << Line("blank") >>

(* --------------------------- analyze_errors --------------------------- *)
Diagnostics(report) == Get(report, "generalDiagnostics", << >>)
Summary(report) == Get(report, "summary", << >>)
ErrorCount(report) == Get(Summary(report), "errorCount", 0)
WarningCount(report) == Get(Summary(report), "warningCount", 0)

\* the tables analyze_errors holds when it returns
AnalyzeTables(report) ==
    IF ErrorCount(report) = 0 THEN EmptyTables
    ELSE Aggregate(Diagnostics(report), EmptyTables)

\* the loop body raises on this diagnostic
DiagRaises(diag) ==
    IsError(diag) /\ ConversionEscapes(Get(diag, "file", UnknownFile))

\* analyze_errors ends with an exception: the loop is reached and one of
\* the diagnostics raises
AnalyzeRaises(report) ==
    /\ ErrorCount(report) # 0
    /\ \E i \in 1..Len(Diagnostics(report)) : DiagRaises(Diagnostics(report)[i])

\* the tables when the exception is raised: the diagnostics before the
\* first one that raises are counted, and that one in rules only
TablesAtRaise(report) ==
    LET ds == Diagnostics(report)
        k == CHOOSE i \in 1..Len(ds) :
                 DiagRaises(ds[i]) /\ \A j \in 1..(i - 1) : ~DiagRaises(ds[j])
        t == Aggregate(SubSeq(ds, 1, k - 1), EmptyTables)
    IN  [rules |-> Increment(t.rules, Get(ds[k], "rule", "unknown")),
         files |-> t.files]

\* the all-clear message is printed but the return after it is missing
AnalyzeOutputNoReturn(report, t) ==
    HeaderLines(ErrorCount(report), WarningCount(report))
    \o (IF ErrorCount(report) = 0 THEN << Line("allClear") >> ELSE << >>)
    \o ByErrorType(t.rules, IF ErrorCount(report) = 0 THEN 1 ELSE ErrorCount(report))
    \o ByFile(t.files)
    \o SuggestStartingPoint(t.rules, t.files)

\* the lines analyze_errors prints, t being the tables it holds
AnalyzeOutput(report, t) ==
    HeaderLines(ErrorCount(report), WarningCount(report))
    \o (IF ErrorCount(report) = 0
            THEN << Line("allClear") >>
            ELSE ByErrorType(t.rules, ErrorCount(report))
                 \o ByFile(t.files)
                 \o SuggestStartingPoint(t.rules, t.files))

(* ----------------------- reports the checker emits --------------------- *)
Inside(name) == [abs |-> TRUE, parts |-> << "proj", name >>]
InsideDotted(name) == [abs |-> TRUE, parts |-> << "proj", ".", name >>]
Outside(name) == [abs |-> TRUE, parts |-> << "other", name >>]
Relative(name) == [abs |-> FALSE, parts |-> << name >>]
RelativeDotted(name) == [abs |-> FALSE, parts |-> << ".", name >>]

ErrorDiag(rule, file) == [severity |-> "error", rule |-> rule, file |-> file]
ErrorDiagNoRule(file) == [severity |-> "error", file |-> file]

\* diagnostics of the short lists: every severity, rule present or absent,
\* file inside or outside the working directory, relative, or absent
ShortDiagPool ==
    { ErrorDiagNoRule(Inside("a.py")),
      ErrorDiag("reportMissingParameterType", InsideDotted("a.py")),
      ErrorDiag("reportMissingParameterType", Relative("a.py")),
      ErrorDiag("unknown", Outside("b.py")),
      [severity |-> "error", rule |-> "reportMissingParameterType"],
      [severity |-> "warning", rule |-> "reportMissingParameterType",
       file |-> Inside("a.py")],
      [severity |-> "information", file |-> Outside("b.py")] }

\* further shapes, met in lists of at most two: no severity, a relative
\* path with a "." component, the literal file name "unknown"
OddDiagPool ==
    ShortDiagPool
    \cup { [rule |-> "reportMissingParameterType", file |-> Inside("a.py")],
           ErrorDiag("reportReturnType", RelativeDotted("a.py")),
           ErrorDiag("reportUnusedImport", Relative("unknown")),
           ErrorDiag("reportUnusedVariable", Outside("a.py")) }

MakeReport(diagnostics, error_count, warning_count) ==
    [generalDiagnostics |-> diagnostics,
     summary |-> [errorCount |-> error_count, warningCount |-> warning_count]]

ShortReports ==
    { MakeReport(ds, ec, wc) :
        ds \in UNION { [1..n -> ShortDiagPool] : n \in 0..MaxDiags },
        ec \in 0..MaxErrorCount, wc \in 0..1 }

OddReports ==
    { MakeReport(ds, ec, 0) :
        ds \in [1..2 -> OddDiagPool], ec \in 1..2 }

Repeat(d, n) == [i \in 1..n |-> d]

RECURSIVE Expand(_)
\* the diagnostic list of a sequence of runs [diag, n]
Expand(runs) ==
    IF runs = << >> THEN << >>
    ELSE Repeat(Head(runs).diag, Head(runs).n) \o Expand(Tail(runs))

FilePool == << "a.py", "b.py", "c.py", "d.py", "e.py", "f.py", "g.py", "h.py",
               "i.py", "j.py", "k.py", "l.py", "m.py", "n.py" >>

RulePool == << "reportUnknownMemberType", "reportMissingParameterType",
               "reportMissingTypeStubs", "reportUnknownArgumentType",
               "reportGeneralTypeIssues", "reportOptionalMemberAccess",
               "reportUnknownVariableType", "reportPrivateUsage",
               "reportAttributeAccessIssue", "reportReturnType",
               "reportUnusedImport", "reportUnusedVariable",
               "reportCallIssue", "reportArgumentType" >>

\* run i of a run-length report is on file i; its rule and length vary
RunRules == { "reportMissingParameterType", "reportMissingTypeStubs",
              "reportUnknownMemberType" }
RunLengths == { 1, 6, 20, 21 }

RunDiags(i) ==
    { ErrorDiag(r, Inside(FilePool[i])) : r \in RunRules }
    \cup { ErrorDiagNoRule(Inside(FilePool[i])) }

RunLists ==
    UNION { { Expand([i \in 1..k |-> [diag |-> ds[i], n |-> ns[i]]]) :
                ds \in { f \in [1..k -> UNION { RunDiags(i) : i \in 1..k }] :
                            \A i \in 1..k : f[i] \in RunDiags(i) },
                ns \in [1..k -> RunLengths] } : k \in 1..MaxRuns }

\* one run per file, all on one rule: the file table is the list of lengths
FileRunLengths == { 3, 5, 7, 12, 20, 25 }
FileRunFiles == 1..4

FileRunLists ==
    UNION { { Expand([i \in 1..k |->
                        [diag |-> ErrorDiag("reportGeneralTypeIssues",
                                            Inside(FilePool[i])),
                         n |-> ns[i]]]) :
                ns \in [1..k -> FileRunLengths] } : k \in FileRunFiles }

\* n diagnostics on n distinct rules spread over m files, then the
\* diagnostics from position j on once more (their rules count 2)
DistinctList(n, m, j) ==
    LET d(i) == ErrorDiag(RulePool[i], Inside(FilePool[((i - 1) % m) + 1]))
        once == [i \in 1..n |-> d(i)]
    IN  once \o SubSeq(once, j, n)

DistinctLists ==
    { DistinctList(n, m, j) :
        n \in (TopN - 2)..MaxDistinct, m \in {1, TopN, MaxDistinct},
        j \in 1..(MaxDistinct + 1) }

\* the reports above carry a summary that agrees with the list
ConsistentReports ==
    { MakeReport(ds, Len(ds), 0) : ds \in RunLists \cup FileRunLists \cup DistinctLists }

Reports == ShortReports \cup OddReports \cup ConsistentReports

(* --------------------------- run_pyright ------------------------------ *)
\* what subprocess.run does: it raises (the program is not found, the
\* timeout expires) or completes with a return code and captured stdout
ProcOutcomes ==
    { [kind |-> "notFound"], [kind |-> "timeout"] }
    \cup { [kind |-> "completed", returncode |-> rc, stdout |-> so] :
             rc \in 0..1,
             so \in { [json |-> "invalid"], [json |-> "null"] }
                    \cup { [json |-> "object", val |-> r] : r \in Reports } }

(* ------------------ reports that lack structure ---------------------- *)
MaxLooseDiags == 2   \* longest diagnostic list of such a report

\* a file field that holds no string
NotString(what) == [json |-> what]

\* a dict without keys
EmptyDict == [k \in { } |-> 0]

\* diagnostics with fields missing, and with every kind of file value: a
\* path inside or outside the working directory, a relative path, none,
\* and values that are not strings
LooseDiagPool ==
    { EmptyDict,
      [severity |-> "error"],
      [severity |-> "error", rule |-> "reportReturnType"],
      [severity |-> "error", file |-> Inside("a.py")],
      [file |-> Inside("a.py")],
      ErrorDiag("reportReturnType", Outside("b.py")),
      ErrorDiag("reportReturnType", Relative("a.py")),
      ErrorDiag("reportReturnType", NotString("null")),
      [severity |-> "error", file |-> NotString("number")],
      [severity |-> "warning", rule |-> "reportReturnType",
       file |-> NotString("array")] }

\* the summary when there is one: with or without either count
LooseSummaries ==
    { EmptyDict, [warningCount |-> 1], [errorCount |-> 1, warningCount |-> 1] }
    \cup { [errorCount |-> n] : n \in 0..2 }

\* reports with or without a summary and with or without a diagnostic list
LooseReports ==
    { s @@ ds :
        s \in { EmptyDict } \cup { "summary" :> v : v \in LooseSummaries },
        ds \in { EmptyDict }
               \cup { "generalDiagnostics" :> l :
                        l \in UNION { [1..n -> LooseDiagPool] : n \in 0..MaxLooseDiags } } }

LooseOutcomes ==
    { [kind |-> "notFound"] }
    \cup { [kind |-> "completed", returncode |-> rc, stdout |-> so] :
             rc \in 0..1,
             so \in { [json |-> "null"] }
                    \cup { [json |-> "object", val |-> r] : r \in LooseReports } }

\* the exception raised inside the try block, "none" when there is none:
\* subprocess.run raises FileNotFoundError or TimeoutExpired, json.loads
\* raises JSONDecodeError
Raised(outcome) ==
    CASE outcome.kind = "notFound" -> "FileNotFoundError"
      [] outcome.kind = "timeout" -> "TimeoutExpired"
      [] outcome.stdout.json = "invalid" -> "JSONDecodeError"
      [] OTHER -> "none"

Raises(outcome) == Raised(outcome) # "none"

\* except ValueError in place of except Exception
CaughtValueError(exception) == exception \in { "JSONDecodeError" }

\* except Exception: the classes derived from Exception
Caught(exception) ==
    exception \in { "FileNotFoundError", "TimeoutExpired", "JSONDecodeError" }

\* the CompletedProcess (or the exception) once stdout has been parsed:
\* the text itself is kept only as its parse, in data
Completed(outcome) ==
    IF outcome.kind # "completed" THEN outcome
    ELSE [kind |-> "completed", returncode |-> outcome.returncode,
          json |-> outcome.stdout.json]

None == [none |-> TRUE]
Some(v) == [none |-> FALSE, val |-> v]

\* the value run_pyright returns (when it returns)
RunPyrightResult(outcome) ==
    IF Raises(outcome) THEN None
    ELSE IF outcome.stdout.json = "null" THEN None
    ELSE Some(outcome.stdout.val)

(* ------------------------------- main --------------------------------- *)
\* the analysis script before it starts
AnalysisStart ==
    /\ pc = "start"
    /\ calls = 0
    /\ proc = [kind |-> "notStarted"]
    /\ data = None
    /\ rules = << >>
    /\ files = << >>
    /\ out = << >>
    /\ err = << >>
    /\ exitCode = -1

\* no project is being set up: the analysis script touches no file
NoProject ==
    /\ step = "idle"
    /\ disk = << >>
    /\ dirs = { }
    /\ args = << >>
    /\ status = -1
    /\ runsDone = 0
    /\ initial = << >>
    /\ before = << >>
    /\ first = << >>
    /\ hookRuns = 0

Init == AnalysisStart /\ NoProject

\* print("Running pyright analysis..."); data = run_pyright()
\* An exception the except clause does not catch ends the script with a
\* traceback and exit code 1.
RunPyrightFrom(outcomes) ==
    /\ pc = "start"
    /\ \E outcome \in outcomes :
        /\ proc' = Completed(outcome)
        /\ data' = RunPyrightResult(outcome)
        /\ IF Raises(outcome) /\ ~Caught(Raised(outcome))
              THEN /\ err' = << Line("traceback") >>
                   /\ pc' = "crashed"
                   /\ exitCode' = 1
              ELSE /\ err' = IF Raises(outcome)
                                THEN << Line("errorRunning") >> ELSE << >>
                   /\ pc' = "ran"
                   /\ exitCode' = exitCode
    /\ calls' = calls + 1
    /\ out' = << Line("running") >>
    /\ UNCHANGED << rules, files >>
    /\ UNCHANGED svars

\* the checker emits a report of the schema, or fails
RunPyright == RunPyrightFrom(ProcOutcomes)

\* the checker emits a report that lacks structure, or fails
RunPyrightLoose == RunPyrightFrom(LooseOutcomes)

\* if data is None: print("Failed to run pyright ..."); sys.exit(1)
MainFailed ==
    /\ pc = "ran"
    /\ data.none
    /\ out' = Append(out, Line("failed"))
    /\ exitCode' = 1
    /\ pc' = "done"
    /\ UNCHANGED << calls, proc, data, rules, files, err >>
    /\ UNCHANGED svars

\* analyze_errors(data), then main returns; an exception raised in the
\* loop over the diagnostics, after the totals line has been printed, ends
\* the script with a traceback and exit code 1
MainAnalyze ==
    /\ pc = "ran"
    /\ ~data.none
    /\ IF AnalyzeRaises(data.val)
          THEN \E t \in { TablesAtRaise(data.val) } :
                /\ out' = out \o HeaderLines(ErrorCount(data.val),
                                             WarningCount(data.val))
                /\ rules' = t.rules
                /\ files' = t.files
                /\ err' = Append(err, Line("traceback"))
                /\ exitCode' = 1
                /\ pc' = "crashed"
          ELSE \E t \in { AnalyzeTables(data.val) } :
                /\ out' = out \o AnalyzeOutput(data.val, t)
                /\ rules' = t.rules
                /\ files' = t.files
                /\ err' = err
                /\ exitCode' = 0
                /\ pc' = "done"
    /\ UNCHANGED << calls, proc, data >>
    /\ UNCHANGED svars

Next == RunPyright \/ MainFailed \/ MainAnalyze

Spec == Init /\ [][Next]_vars

\* the same script on reports that lack structure
LooseNext == RunPyrightLoose \/ MainFailed \/ MainAnalyze

LooseSpec == Init /\ [][LooseNext]_vars

(* ====================== scripts/init_typing.py ======================== *)
(* Runs of the set-up script on one project.  A regular file is a record   *)
(* [text, exec]: text is the sequence of the strings written to it, in     *)
(* order, and exec its executable bit.  disk maps the paths of the regular *)
(* files that exist to such records; dirs is the set of the directories    *)
(* that exist.  The executables the script starts (npx, python, git) can   *)
(* be started or fail as the except clauses around them expect; a machine  *)
(* without a git executable, on which --full ends install_ralph_wiggum     *)
(* with an uncaught FileNotFoundError, is not among the environments.      *)

(* ------------------------------ bounds -------------------------------- *)
MaxInitRuns == 2     \* runs of the set-up script on one project

(* ------------------------------ paths --------------------------------- *)
ConfigPath == "pyrightconfig.json"
BackupPath == "pyrightconfig.json.bak"
HarnessDir == ".long-task-harness"
RulesDst == ".long-task-harness/rules"
FindingsPath == ".long-task-harness/typing-findings.md"
ProgressPath == ".long-task-harness/long-task-progress.md"
GitDir == ".git"
HooksDir == ".git/hooks"
HookPath == ".git/hooks/pre-commit"
RulesSrc == "skill/assets/rules"
InitScript == "~/.claude/skills/long-task-harness/scripts/init_harness.py"
PluginsDir == "~/.claude/plugins/marketplaces"
RalphDir == "~/.claude/plugins/marketplaces/claude-plugins-official"

RuleNames ==
    << "block-type-ignore.md", "block-gratuitous-assert.md",
       "warn-any-type.md", "warn-cast-overuse.md" >>

(* --------------------------- file system ------------------------------ *)
\* Path.exists()
PathExists(d, ds, p) == p \in DOMAIN d \/ p \in ds

Put(d, p, file) ==
    [q \in DOMAIN d \cup { p } |-> IF q = p THEN file ELSE d[q]]

\* with open(p, "w") as f: f.write(chunk) for every chunk; a file that
\* exists keeps its mode, a new one is not executable
OpenWrite(d, p, chunks) ==
    Put(d, p, [text |-> chunks,
               exec |-> IF p \in DOMAIN d THEN d[p].exec ELSE FALSE])

\* with open(p, "a") as f: f.write(chunk) for every chunk, p existing
OpenAppend(d, p, chunks) ==
    Put(d, p, [text |-> d[p].text \o chunks, exec |-> d[p].exec])

\* shutil.copy(src, dst): the content and the permission bits
Copy(d, src, dst) == Put(d, dst, d[src])

\* Path.chmod(0o755)
Chmod755(d, p) == Put(d, p, [text |-> d[p].text, exec |-> TRUE])

(* ----------------------- create_pyright_config ------------------------ *)
Levels == { "strict", "standard", "basic" }

\* json.dump(configs[level], f, indent=2)
Configs(level) ==
    CASE level = "strict" ->
           "{typeCheckingMode: strict, pythonVersion: 3.11, reportMissingTypeStubs: false, reportMissingImports: false}"
      [] level = "standard" ->
           "{typeCheckingMode: standard, pythonVersion: 3.11, reportMissingTypeStubs: false}"
      [] level = "basic" ->
           "{typeCheckingMode: basic, pythonVersion: 3.11}"

\* the backup taken after the config has been written
WriteConfigThenBackup(d, level) ==
    LET written == OpenWrite(d, ConfigPath, << Configs(level) >>)
    IN  IF ConfigPath \in DOMAIN d
           THEN Copy(written, ConfigPath, BackupPath) ELSE written

\* the files after create_pyright_config, the backup taken first
WriteConfig(d, level) ==
    LET backedUp == IF ConfigPath \in DOMAIN d
                       THEN Copy(d, ConfigPath, BackupPath) ELSE d
    IN  OpenWrite(backedUp, ConfigPath, << Configs(level) >>)

\* Path.mkdir(exist_ok=...) raises FileExistsError: the path is a regular
\* file, or it is a directory and exist_ok is false
MkdirRaises(d, ds, p, existOk) == p \in DOMAIN d \/ (p \in ds /\ ~existOk)

(* ---------------------------- create_rules ---------------------------- *)
RuleSrc(i) == RulesSrc \o "/" \o RuleNames[i]
RuleDst(i) == RulesDst \o "/" \o RuleNames[i]

\* for rule in rules: if src.exists(): shutil.copy(src, dst)
RECURSIVE CopyRules(_, _)
CopyRules(d, n) ==
    IF n = 0 THEN d
    ELSE LET copied == CopyRules(d, n - 1)
         IN  IF RuleSrc(n) \in DOMAIN copied
                THEN Copy(copied, RuleSrc(n), RuleDst(n))
                ELSE copied

(* ----------------------- create_typing_findings ----------------------- *)
FindingsTemplate == "# Typing Findings Log ... (Add entries as issues are discovered)\n"

\* the template written without looking for an existing file
WriteFindingsAlways(d) == OpenWrite(d, FindingsPath, << FindingsTemplate >>)

\* if findings_path.exists(): return; otherwise the template is written
WriteFindings(d) ==
    IF FindingsPath \in DOMAIN d THEN d
    ELSE OpenWrite(d, FindingsPath, << FindingsTemplate >>)

(* ----------------------- create_precommit_hook ------------------------ *)
Shebang == "#!/bin/bash\n\n"
AppendHeader == "\n\n# Pyright type check (added by python-typing skill)\n"

\* _get_hook_content()
HookContent == "echo Running pyright type check... OUTPUT=$(npx pyright 2>&1) ... fi\n"

\* a hook file that holds the block already is left as it is
WriteHookOnce(d) ==
    IF HookPath \in DOMAIN d
        THEN IF \E i \in 1..Len(d[HookPath].text) : d[HookPath].text[i] = HookContent
                THEN d
                ELSE OpenAppend(d, HookPath, << AppendHeader, HookContent >>)
        ELSE Chmod755(OpenWrite(d, HookPath, << Shebang, HookContent >>), HookPath)

\* the hook file is appended to when it exists, created executable when not
WriteHook(d) ==
    IF HookPath \in DOMAIN d
        THEN OpenAppend(d, HookPath, << AppendHeader, HookContent >>)
        ELSE Chmod755(OpenWrite(d, HookPath, << Shebang, HookContent >>), HookPath)

(* ------------------------------ extras -------------------------------- *)
\* install_long_task_harness: init_harness.py belongs to another skill; it
\* either creates the progress file of the project or fails, and its result
\* is not looked at
InstallLongTaskHarness(d, ds, created) ==
    IF ProgressPath \in DOMAIN d \/ InitScript \notin DOMAIN d \/ ~created
        THEN [disk |-> d, dirs |-> ds]
        ELSE [disk |-> OpenWrite(d, ProgressPath, << "# Progress\n" >>),
              dirs |-> ds \cup { HarnessDir }]

\* install_ralph_wiggum: git clone creates the plugin directory, or fails
\* with CalledProcessError, which is caught
InstallRalphWiggum(ds, cloned) ==
    IF RalphDir \in ds THEN ds
    ELSE IF cloned THEN ds \cup { PluginsDir, RalphDir }
    ELSE ds \cup { PluginsDir }

(* ------------------------------- main --------------------------------- *)
\* the files the properties speak of
WatchedPaths == { ConfigPath, BackupPath, FindingsPath, HookPath }
Watched(d) == [p \in DOMAIN d \cap WatchedPaths |-> d[p]]
FindingsOf(d) == [p \in DOMAIN d \cap { FindingsPath } |-> d[p]]

File(text, exec) == [text |-> << text >>, exec |-> exec]

\* projects the script is started on: with or without a config, a stale
\* backup, a findings log and a git directory with or without a hook
UserConfig == "{typeCheckingMode: off, old: true}"
StaleBackup == "{stale: true}"
UserFindings == "# Typing Findings Log ... ### [2024-01-05] Untyped plugin API\n"
UserHook == "#!/bin/sh\nmake lint\n"

Projects ==
    { [disk |-> config @@ backup @@ findings @@ git.disk,
       dirs |-> git.dirs \cup (IF DOMAIN findings = { } THEN { } ELSE { HarnessDir })] :
        config \in { << >>, ConfigPath :> File(UserConfig, FALSE) },
        backup \in { << >>, BackupPath :> File(StaleBackup, FALSE) },
        findings \in { << >>, FindingsPath :> File(UserFindings, FALSE) },
        git \in { [disk |-> << >>, dirs |-> { }],
                  [disk |-> << >>, dirs |-> { GitDir, HooksDir }],
                  [disk |-> HookPath :> File(UserHook, TRUE),
                   dirs |-> { GitDir, HooksDir }] } }

\* what is installed around the project: the rule files of the skill, the
\* long-task-harness skill, the plugin directory
Installed ==
    { [disk |-> [i \in 1..4 |-> File("rule\n", FALSE)],
       names |-> [i \in 1..4 |-> RuleSrc(i)], script |-> TRUE, dirs |-> { }],
      [disk |-> [i \in 1..3 |-> File("rule\n", FALSE)],
       names |-> [i \in 1..3 |-> RuleSrc(i + 1)], script |-> FALSE,
       dirs |-> { PluginsDir, RalphDir }] }

InstalledDisk(e) ==
    [p \in { e.names[i] : i \in DOMAIN e.names }
             \cup (IF e.script THEN { InitScript } ELSE { }) |->
        IF p = InitScript THEN File("# init_harness.py\n", FALSE)
        ELSE File("rule\n", FALSE)]

InitProject ==
    /\ AnalysisStart
    /\ \E project \in Projects, e \in Installed :
        /\ disk = project.disk @@ InstalledDisk(e)
        /\ dirs = project.dirs \cup e.dirs
        /\ initial = Watched(project.disk)
        /\ before = Watched(project.disk)
    /\ step = "idle"
    /\ args = [level |-> "strict", no_hook |-> FALSE]
    /\ status = -1
    /\ runsDone = 0
    /\ first = << >>
    /\ hookRuns = 0

\* the run goes on to the next call of main
Continue(to) ==
    /\ step' = to
    /\ UNCHANGED << status, runsDone, first >>

\* an uncaught exception: traceback, exit status 1
Traceback ==
    /\ step' = "idle"
    /\ status' = 1
    /\ runsDone' = runsDone + 1
    /\ first' = IF runsDone = 0 THEN FindingsOf(disk) ELSE first
    /\ UNCHANGED << disk, dirs, hookRuns >>

\* args = parser.parse_args(): --level and --no-hook; the other flags are
\* drawn where main reads them
StartRun ==
    /\ step = "idle"
    /\ runsDone < MaxInitRuns
    /\ \E level \in Levels, noHook \in BOOLEAN :
        args' = [level |-> level, no_hook |-> noHook]
    /\ before' = Watched(disk)
    /\ step' = "config"
    /\ status' = -1
    /\ UNCHANGED << disk, dirs, runsDone, initial, first, hookRuns >>
    /\ UNCHANGED avars

\* baseline = create_pyright_config(args.level, project_dir); the checker
\* run that counts the baseline reads the project and writes no file, and
\* the count is only printed
CreatePyrightConfig ==
    /\ step = "config"
    /\ disk' = WriteConfig(disk, args.level)
    /\ Continue("rules")
    /\ UNCHANGED << dirs, args, initial, before, hookRuns >>
    /\ UNCHANGED avars

\* if not args.no_rules: create_rules(project_dir)
CreateRules ==
    /\ step = "rules"
    /\ \E noRules \in BOOLEAN :
        IF noRules
            THEN Continue("findings") /\ UNCHANGED << disk, dirs >>
        ELSE IF \/ MkdirRaises(disk, dirs, HarnessDir, TRUE)
                \/ MkdirRaises(disk, dirs, RulesDst, TRUE)
            THEN Traceback
        ELSE /\ dirs' = dirs \cup { HarnessDir, RulesDst }
             /\ disk' = CopyRules(disk, Len(RuleNames))
             /\ Continue("findings")
    /\ UNCHANGED << args, initial, before, hookRuns >>
    /\ UNCHANGED avars

\* create_typing_findings(project_dir)
CreateTypingFindings ==
    /\ step = "findings"
    /\ IF MkdirRaises(disk, dirs, HarnessDir, TRUE)
          THEN Traceback
          ELSE /\ dirs' = dirs \cup { HarnessDir }
               /\ disk' = WriteFindings(disk)
               /\ Continue("hook")
               /\ UNCHANGED hookRuns
    /\ UNCHANGED << args, initial, before >>
    /\ UNCHANGED avars

\* if not args.no_hook: create_precommit_hook(project_dir)
CreatePrecommitHook ==
    /\ step = "hook"
    /\ IF args.no_hook \/ GitDir \notin dirs
          THEN Continue("extras") /\ UNCHANGED << disk, dirs, hookRuns >>
       ELSE IF MkdirRaises(disk, dirs, HooksDir, TRUE)
          THEN Traceback
       ELSE /\ dirs' = dirs \cup { HooksDir }
            /\ disk' = WriteHook(disk)
            /\ hookRuns' = hookRuns + 1
            /\ Continue("extras")
    /\ UNCHANGED << args, initial, before >>
    /\ UNCHANGED avars

\* if args.full: install_long_task_harness, install_ralph_wiggum
InstallExtras ==
    /\ step = "extras"
    /\ \E full, noHarness, noRalph, created, cloned \in BOOLEAN :
        LET harness == IF full /\ ~noHarness
                          THEN InstallLongTaskHarness(disk, dirs, created)
                          ELSE [disk |-> disk, dirs |-> dirs]
        IN  /\ disk' = harness.disk
            /\ dirs' = IF full /\ ~noRalph
                          THEN InstallRalphWiggum(harness.dirs, cloned)
                          ELSE harness.dirs
    /\ Continue("complete")
    /\ UNCHANGED << args, initial, before, hookRuns >>
    /\ UNCHANGED avars

\* print("Setup complete!") ...; main returns and the process ends
SetupComplete ==
    /\ step = "complete"
    /\ step' = "idle"
    /\ status' = 0
    /\ runsDone' = runsDone + 1
    /\ first' = IF runsDone = 0 THEN FindingsOf(disk) ELSE first
    /\ UNCHANGED << disk, dirs, args, initial, before, hookRuns >>
    /\ UNCHANGED avars

InitNext ==
    \/ StartRun
    \/ CreatePyrightConfig
    \/ CreateRules
    \/ CreateTypingFindings
    \/ CreatePrecommitHook
    \/ InstallExtras
    \/ SetupComplete

InitSpec == InitProject /\ [][InitNext]_vars

(* ============================ properties ============================== *)
\* analyze_errors has run to its end on the report in data
Analysed == pc = "done" /\ ~data.none

\* positions of the printed lines of one kind
At(kind) == { i \in 1..Len(out) : out[i].kind = kind }
Has(kind) == At(kind) # { }

\* positions of the input diagnostics whose severity is exactly "error"
ErrorPositions ==
    LET ds == Diagnostics(data.val)
    IN  { i \in 1..Len(ds) : "severity" \in DOMAIN ds[i] /\ ds[i].severity = "error" }

PrintsSections == Has("byErrorType") /\ Has("byFile") /\ Has("strategy")
PrintsNoSection == ~Has("byErrorType") /\ ~Has("byFile") /\ ~Has("strategy")

\* C1: a report with errorCount 0 prints the totals line and the all-clear
\* message and none of the three sections, whatever its diagnostics are; a
\* report with errorCount > 0 prints the three sections and no all-clear.
C1_AllClearIffZeroErrors ==
    Analysed =>
        /\ Cardinality(At("total")) = 1
        /\ \A i \in At("total") : out[i].errors = ErrorCount(data.val)
        /\ ErrorCount(data.val) = 0 => Has("allClear") /\ PrintsNoSection
        /\ ErrorCount(data.val) > 0 => ~Has("allClear") /\ PrintsSections

\* errorCount is 0 although the list holds error diagnostics
C1_Witness ==
    /\ Analysed
    /\ ErrorCount(data.val) = 0
    /\ ErrorPositions # { }
    /\ Has("allClear")

\* C2: with errorCount > 0 the rule table and the file table each sum to
\* the number of diagnostics of severity "error"; warnings and information
\* entries add to neither.
C2_TablesSumToErrorDiagnostics ==
    (Analysed /\ ErrorCount(data.val) > 0) =>
        /\ SumTable(rules) = Cardinality(ErrorPositions)
        /\ SumTable(files) = Cardinality(ErrorPositions)

\* warnings are in the list, and the sums differ from the summary errorCount
C2_Witness ==
    /\ Analysed
    /\ ErrorCount(data.val) > 0
    /\ \E i \in 1..Len(Diagnostics(data.val)) : i \notin ErrorPositions
    /\ ErrorPositions # { }
    /\ SumTable(rules) # ErrorCount(data.val)
    /\ SumTable(files) = Cardinality(ErrorPositions)

\* positions of the lines that name a starting file
StartLines == At("goodStart") \cup At("startSmall")

\* the count printed with the starting file named at line i
StartCount(i) ==
    IF out[i].kind = "startSmall" THEN out[i].count ELSE out[i + 1].count

InRange(c) == 5 <= c /\ c <= 20

\* positions of the file table whose count lies in [5, 20]
InRangePositions == { k \in 1..Len(files) : InRange(files[k].count) }

\* C3: a non-empty file table gets exactly one starting file: the first
\* entry with the least count among the entries in [5, 20] if there are any,
\* otherwise an entry with the least count of all; an empty table gets none.
C3_StartingFileChoice ==
    (Analysed /\ ErrorCount(data.val) > 0) =>
        IF files = << >> THEN StartLines = { }
        ELSE /\ Cardinality(StartLines) = 1
             /\ \A i \in StartLines :
                  IF InRangePositions # { }
                    THEN \E k \in InRangePositions :
                           /\ out[i].kind = "goodStart"
                           /\ out[i].file = files[k].key
                           /\ StartCount(i) = files[k].count
                           /\ \A j \in InRangePositions :
                                /\ files[k].count <= files[j].count
                                /\ j < k => files[j].count > files[k].count
                    ELSE \E k \in 1..Len(files) :
                           /\ out[i].kind = "startSmall"
                           /\ out[i].file = files[k].key
                           /\ StartCount(i) = files[k].count
                           /\ \A j \in 1..Len(files) :
                                files[k].count <= files[j].count

\* two files tie on the least count within [5, 20] and the first is named
C3_Witness ==
    /\ Analysed
    /\ \E k, j \in InRangePositions :
         /\ k < j
         /\ files[k].count = files[j].count
         /\ \A m \in InRangePositions : files[k].count <= files[m].count
         /\ \E i \in At("goodStart") : out[i].file = files[k].key

FileKey(name) == [abs |-> FALSE, parts |-> << name >>]

\* the file table {a:3, b:7, c:25, d:12} of the example
ExampleFiles ==
    << [key |-> FileKey("a.py"), count |-> 3], [key |-> FileKey("b.py"), count |-> 7],
       [key |-> FileKey("c.py"), count |-> 25], [key |-> FileKey("d.py"), count |-> 12] >>

\* C4 as stated: for the table {a:3, b:7, c:25, d:12} the starting file is
\* d, with count 12.
C4_ExampleSelectsD ==
    (Analysed /\ files = ExampleFiles) =>
        \E i \in StartLines : out[i].file = FileKey("d.py") /\ StartCount(i) = 12

\* C4 as amended: for the table {a:3, b:7, c:25, d:12} the starting file is
\* b, whose count 7 is the least of the counts within [5, 20].
C4_ExampleSelectsB ==
    (Analysed /\ files = ExampleFiles) =>
        /\ Cardinality(StartLines) = 1
        /\ \A i \in StartLines :
             /\ out[i].kind = "goodStart"
             /\ out[i].file = FileKey("b.py")
             /\ StartCount(i) = 7

C4_Witness == Analysed /\ files = ExampleFiles /\ Has("goodStart")

\* the report of the end-to-end example: errorCount 7, six errors on
\* reportMissingParameterType in one file, one error on "unknown" in another
EndToEndReport ==
    /\ Analysed
    /\ ErrorCount(data.val) = 7
    /\ LET ds == Diagnostics(data.val)
           six == { i \in ErrorPositions :
                      /\ "rule" \in DOMAIN ds[i]
                      /\ ds[i].rule = "reportMissingParameterType" }
           one == ErrorPositions \ six
       IN  /\ Cardinality(six) = 6
           /\ Cardinality(one) = 1
           /\ \A i \in one : Get(ds[i], "rule", "unknown") = "unknown"
           /\ \A i, j \in six : ds[i].file = ds[j].file
           /\ \A i \in one : \A j \in six : ds[i].file # ds[j].file

RuleCountsAre6And1 ==
    /\ Len(rules) = 2
    /\ CountOf(rules, "reportMissingParameterType") = 6
    /\ CountOf(rules, "unknown") = 1

\* C5 as stated: the example yields the rule table
\* {reportMissingParameterType: 6, unknown: 1} and the quick-win suggestion,
\* and its starting file is the file with 1 error, by the fallback.
C5_EndToEndFallback ==
    EndToEndReport =>
        /\ RuleCountsAre6And1
        /\ Has("quickWins")
        /\ \E i \in At("startSmall") : out[i].count = 1

\* C5 as amended: the example yields that rule table and the quick-win
\* suggestion (naming 6), and its starting file is the file with 6 errors,
\* 6 being within [5, 20]; the fallback is not taken.
C5_EndToEndModerate ==
    EndToEndReport =>
        /\ RuleCountsAre6And1
        /\ \E i \in At("quickWins") : out[i].n = 6
        /\ ~Has("startSmall")
        /\ Cardinality(At("goodStart")) = 1
        /\ \A i \in At("goodStart") :
             /\ StartCount(i) = 6
             /\ CountOf(files, out[i].file) = 6

C5_Witness == EndToEndReport /\ Has("goodStart") /\ Has("quickWins")

\* the rule key of the diagnostic at position i of the input
InputRule(i) == Get(Diagnostics(data.val)[i], "rule", "unknown")

\* the distinct rule keys of the error diagnostics of the input
InputRules == { InputRule(i) : i \in ErrorPositions }

Least(a, b) == IF a < b THEN a ELSE b

\* a breakdown over n keys lists Least(n, 10) entries, and carries one
\* notice, of n - 10, exactly when n > 10
Truncated(n, entryKind, noticeKind) ==
    /\ Cardinality(At(entryKind)) = Least(n, 10)
    /\ Has(noticeKind) <=> n > 10
    /\ Cardinality(At(noticeKind)) <= 1
    /\ \A i \in At(noticeKind) : out[i].n = n - 10

\* C6: the rule breakdown of a table of n keys lists min(n, 10) entries and
\* a notice of n - 10 more iff n > 10; so does the file breakdown.
C6_TopTenWithRemainder ==
    (Analysed /\ ErrorCount(data.val) > 0) =>
        /\ Truncated(Cardinality(InputRules), "rule", "moreTypes")
        /\ Truncated(Len(files), "file", "moreFiles")

\* 11 rules: 10 entries and a notice of 1 more; 10 files: no notice
C6_Witness ==
    /\ Analysed
    /\ Cardinality(InputRules) = 11
    /\ Cardinality(At("rule")) = 10
    /\ \E i \in At("moreTypes") : out[i].n = 1
    /\ Len(files) = 10
    /\ ~Has("moreFiles")

\* the printed lines of one kind, in the order printed
RuleEntries == SelectSeq(out, LAMBDA l : l.kind = "rule")
FileEntries == SelectSeq(out, LAMBDA l : l.kind = "file")

\* the least position of the input at which an error has this rule key
FirstSeenRule(rule) ==
    CHOOSE i \in ErrorPositions :
        /\ InputRule(i) = rule
        /\ \A j \in ErrorPositions : InputRule(j) = rule => i <= j

\* the display path of the error diagnostic at position i of the input
InputFile(i) == DisplayPath(Get(Diagnostics(data.val)[i], "file", UnknownFile))

FirstSeenFile(file) ==
    CHOOSE i \in ErrorPositions :
        /\ InputFile(i) = file
        /\ \A j \in ErrorPositions : InputFile(j) = file => i <= j

\* C7: in both breakdowns the counts never increase down the list, and of
\* two entries with equal counts the one whose key was first seen earlier
\* in the diagnostic list comes first.
C7_DescendingThenFirstSeen ==
    (Analysed /\ ErrorCount(data.val) > 0) =>
        /\ \A a, b \in 1..Len(RuleEntries) :
             a < b =>
               /\ RuleEntries[a].count >= RuleEntries[b].count
               /\ RuleEntries[a].count = RuleEntries[b].count
                    => FirstSeenRule(RuleEntries[a].rule) < FirstSeenRule(RuleEntries[b].rule)
        /\ \A a, b \in 1..Len(FileEntries) :
             a < b =>
               /\ FileEntries[a].count >= FileEntries[b].count
               /\ FileEntries[a].count = FileEntries[b].count
                    => FirstSeenFile(FileEntries[a].file) < FirstSeenFile(FileEntries[b].file)

\* a later-seen rule is listed before an earlier-seen one on its count, and
\* two rules tie
C7_Witness ==
    /\ Analysed
    /\ \E a, b \in 1..Len(RuleEntries) :
         /\ a < b
         /\ RuleEntries[a].count > RuleEntries[b].count
         /\ FirstSeenRule(RuleEntries[a].rule) > FirstSeenRule(RuleEntries[b].rule)
    /\ \E a, b \in 1..Len(RuleEntries) :
         /\ a < b
         /\ RuleEntries[a].count = RuleEntries[b].count
    /\ \E a, b \in 1..Len(FileEntries) :
         /\ a < b
         /\ FileEntries[a].count = FileEntries[b].count

\* the number of error diagnostics of the input whose rule is in the set
ErrorsOn(ruleSet) ==
    Cardinality({ i \in ErrorPositions : InputRule(i) \in ruleSet })

AllowList ==
    { "reportMissingParameterType", "reportMissingTypeStubs", "reportUnusedImport",
      "reportUnusedVariable", "reportReturnType" }

\* C8: the quick-win suggestion is printed iff the errors on the five
\* allow-listed rules number more than 0, and it names that number.
C8_QuickWinsIffAllowListed ==
    (Analysed /\ ErrorCount(data.val) > 0) =>
        /\ Has("quickWins") <=> ErrorsOn(AllowList) > 0
        /\ Cardinality(At("quickWins")) <= 1
        /\ \A i \in At("quickWins") : out[i].n = ErrorsOn(AllowList)

\* errors on two allow-listed rules and on a rule outside the list
C8_Witness ==
    /\ Analysed
    /\ Cardinality(InputRules \cap AllowList) >= 2
    /\ InputRules \ AllowList # { }
    /\ \E i \in At("quickWins") : out[i].n < Cardinality(ErrorPositions)

StubRules == { "reportMissingTypeStubs", "reportUnknownMemberType" }

\* C9: the stub-package suggestion is printed iff the errors on
\* reportMissingTypeStubs and reportUnknownMemberType together number more
\* than 20, and it names that number, whether or not quick wins are printed.
C9_StubsIffMoreThanTwenty ==
    (Analysed /\ ErrorCount(data.val) > 0) =>
        /\ Has("stubs") <=> ErrorsOn(StubRules) > 20
        /\ Cardinality(At("stubs")) <= 1
        /\ \A i \in At("stubs") : out[i].n = ErrorsOn(StubRules)

\* 21 stub errors, none of them a quick win: stubs without quick wins
C9_Witness ==
    /\ Analysed
    /\ ErrorsOn(StubRules) = 21
    /\ \E i \in At("stubs") : out[i].n = 21
    /\ ~Has("quickWins")

\* no report was obtained: the program was not found, the timeout expired,
\* or stdout is not JSON
NoReport ==
    \/ proc.kind \in { "notFound", "timeout" }
    \/ proc.kind = "completed" /\ proc.json = "invalid"

\* C10: the checker is invoked once; no exception leaves run_pyright; with
\* no report the script prints the failure message, exits 1 and prints no
\* totals line or section; with a JSON report it analyses and exits 0,
\* whatever the checker's return code.
C10_FailureOnlyWithoutReport ==
    /\ calls <= 1
    /\ pc # "start" => calls = 1
    /\ pc # "crashed"
    /\ (pc = "done" /\ NoReport) =>
         /\ exitCode = 1
         /\ Has("failed")
         /\ err = << Line("errorRunning") >>
         /\ ~Has("total") /\ ~Has("allClear") /\ PrintsNoSection
    /\ (pc = "done" /\ proc.kind = "completed" /\ proc.json = "object") =>
         /\ exitCode = 0
         /\ Has("total")
         /\ ~Has("failed")

\* the timeout expired: one invocation, failure message, exit code 1
C10_Witness ==
    /\ pc = "done"
    /\ proc.kind = "timeout"
    /\ calls = 1
    /\ exitCode = 1
    /\ Has("failed")

(* ================== properties of scripts/init_typing.py ============== *)
\* a run has ended and no other has started
Idle == step = "idle" /\ runsDone >= 1

C12_BackupIsConfigBeforeRun ==
    Idle =>
        /\ ConfigPath \in DOMAIN disk
        /\ disk[ConfigPath].text = << Configs(args.level) >>
        /\ ConfigPath \in DOMAIN before =>
             /\ BackupPath \in DOMAIN disk
             /\ disk[BackupPath] = before[ConfigPath]
        /\ ConfigPath \notin DOMAIN before =>
             /\ BackupPath \in DOMAIN disk <=> BackupPath \in DOMAIN before
             /\ BackupPath \in DOMAIN disk => disk[BackupPath] = before[BackupPath]
        /\ runsDone >= 2 =>
             /\ ConfigPath \in DOMAIN before
             /\ disk[BackupPath].text = before[ConfigPath].text

\* a project with a config of its user's: the first run selected standard,
\* the second basic; the .bak file holds the standard preset, no longer
\* the user's config, and the config file the basic preset
C12_Witness ==
    /\ Idle
    /\ runsDone = 2
    /\ ConfigPath \in DOMAIN initial
    /\ initial[ConfigPath].text = << UserConfig >>
    /\ args.level = "basic"
    /\ before[ConfigPath].text = << Configs("standard") >>
    /\ disk[BackupPath].text = << Configs("standard") >>
    /\ disk[ConfigPath].text = << Configs("basic") >>

\* the number of copies of the checker block in the hook file of d
Copies(d) ==
    IF HookPath \notin DOMAIN d THEN 0
    ELSE Cardinality({ i \in 1..Len(d[HookPath].text) :
                         d[HookPath].text[i] = HookContent })

\* the latest run was made in a git project without --no-hook
HookRun == GitDir \in dirs /\ ~args.no_hook

\* C15: a run leaves the hook file as it found it (absent, or the same
\* file) unless the project has a .git directory and --no-hook was not
\* given; such a run creates a missing hook as the shebang followed by the
\* block, and appends to an existing hook, whose text stays a prefix, a
\* header and the block: one more copy of the block.  After k such runs
\* the file holds k copies more than at the beginning, k when it did not
\* exist.
C15_HookGainsOneBlockPerRun ==
    Idle =>
        /\ ~HookRun =>
             /\ HookPath \in DOMAIN disk <=> HookPath \in DOMAIN before
             /\ HookPath \in DOMAIN disk => disk[HookPath] = before[HookPath]
        /\ (HookRun /\ HookPath \notin DOMAIN before) =>
             /\ HookPath \in DOMAIN disk
             /\ disk[HookPath].text = << Shebang, HookContent >>
        /\ (HookRun /\ HookPath \in DOMAIN before) =>
             /\ HookPath \in DOMAIN disk
             /\ disk[HookPath].text =
                    before[HookPath].text \o << AppendHeader, HookContent >>
             /\ disk[HookPath].exec = before[HookPath].exec
        /\ HookRun => Copies(disk) = Copies(before) + 1
        /\ Copies(disk) = Copies(initial) + hookRuns
        /\ HookPath \notin DOMAIN initial =>
             /\ Copies(disk) = hookRuns
             /\ hookRuns = 0 <=> HookPath \notin DOMAIN disk

\* two runs with the hook step on a git project that had no hook: the file
\* is the shebang, the block, the header and the block again
C15_Witness ==
    /\ Idle
    /\ runsDone = 2
    /\ hookRuns = 2
    /\ HookPath \notin DOMAIN initial
    /\ disk[HookPath].text = << Shebang, HookContent, AppendHeader, HookContent >>
    /\ Copies(disk) = 2

(* ============ properties on reports that lack structure =============== *)
\* the script has ended, one way or the other, on a JSON object
Ended ==
    /\ pc \in { "done", "crashed" }
    /\ proc.kind = "completed"
    /\ proc.json = "object"

\* the counts as the report states them, 0 when it states none
StatedCount(report, key) ==
    IF "summary" \in DOMAIN report /\ key \in DOMAIN report.summary
        THEN report.summary[key] ELSE 0

\* every file field the report holds is a string
FileFieldsAreStrings(report) ==
    \A i \in 1..Len(Diagnostics(report)) :
        "file" \in DOMAIN Diagnostics(report)[i] =>
            IsString(Diagnostics(report)[i].file)

\* error diagnostics of the input that state no rule, or the rule "unknown"
UnknownRulePositions ==
    { i \in ErrorPositions :
        "rule" \in DOMAIN Diagnostics(data.val)[i] =>
            Diagnostics(data.val)[i].rule = "unknown" }

\* C14: on a JSON object whose fields, where present, have the types of
\* the schema, the analysis runs to its end and the script exits 0; the
\* totals line shows 0 for a count the summary does not state (or when
\* there is no summary), and the report is then all clear when it is the
\* error count; without a diagnostic list both tables are empty and the
\* sections are printed all the same; the error diagnostics without a rule
\* are counted under "unknown".
C14_MissingFieldsReadAsDefaults ==
    (Ended /\ FileFieldsAreStrings(data.val)) =>
        /\ pc = "done"
        /\ exitCode = 0
        /\ err = << >>
        /\ \E i \in At("total") :
             /\ out[i].errors = StatedCount(data.val, "errorCount")
             /\ out[i].warnings = StatedCount(data.val, "warningCount")
        /\ StatedCount(data.val, "errorCount") = 0 =>
             Has("allClear") /\ PrintsNoSection
        /\ StatedCount(data.val, "errorCount") # 0 =>
             /\ PrintsSections
             /\ "generalDiagnostics" \notin DOMAIN data.val =>
                  rules = << >> /\ files = << >>
             /\ CountOf(rules, "unknown") = Cardinality(UnknownRulePositions)
             /\ SumTable(rules) = Cardinality(ErrorPositions)

\* a report whose summary states the error count only and whose two error
\* diagnostics state no rule: exit code 0, both under "unknown"
C14_Witness ==
    /\ Ended
    /\ pc = "done"
    /\ exitCode = 0
    /\ "summary" \in DOMAIN data.val
    /\ "warningCount" \notin DOMAIN data.val.summary
    /\ StatedCount(data.val, "errorCount") = 1
    /\ Cardinality(ErrorPositions) = 2
    /\ \A i \in ErrorPositions : "rule" \notin DOMAIN Diagnostics(data.val)[i]
    /\ CountOf(rules, "unknown") = 2

\* C13: whatever the file field of an error diagnostic holds, the run gets
\* through the loop and to its end, and every error diagnostic is counted
\* in the file table, under its file value as it is or under that path made
\* relative to the working directory.
C13_DisplayPathNeverFails ==
    (Ended /\ StatedCount(data.val, "errorCount") # 0) =>
        /\ pc = "done"
        /\ exitCode = 0
        /\ SumTable(files) = Cardinality(ErrorPositions)
        /\ \A i \in ErrorPositions :
             LET v == Get(Diagnostics(data.val)[i], "file", UnknownFile)
             IN  \/ CountOf(files, v) > 0
                 \/ /\ IsString(v)
                    /\ ~RelativeToRaises(ParsePath(v), Cwd)
                    /\ CountOf(files, RelativeTo(ParsePath(v), Cwd)) > 0

====
